---- MODULE Spec2Model ----
(***************************************************************************)
(* A model of Contact_book.py: the validated fields (Phone, Birthday), the *)
(* Record and AddressBook classes, pickle persistence, the input_error     *)
(* decorator with the six command handlers, and the main() loop.           *)
(*                                                                         *)
(* A Python str is the sequence of its Unicode code points: "add" is       *)
(* <<97, 100, 100>>, written U("add"), and "" is <<>>.  The character      *)
(* classes of str.isdigit, str.split, str.lower and of the \d of re are    *)
(* those of the Unicode database of CPython 3.11 (Unicode 14.0).  A value  *)
(* of type Optional[str] is a sequence of length 0 (None) or 1.  An        *)
(* operation that may raise returns a record whose field exc names the     *)
(* exception ("None" when it returned normally) and whose field val is the *)
(* returned value or the exception's message.                              *)
(***************************************************************************)
EXTENDS Integers, Sequences, FiniteSets, TLC

VARIABLES
    pc,          \* position of main(): "prompt", "stopped" (returned), "crashed" (uncaught exception)
    data,        \* AddressBook.data: the records in dict insertion order
    file,        \* addressbook.pkl: <<>> when absent, else <<pickled stream>>
    out,         \* what the view displayed during the last loop iteration
    user_input,  \* main()'s user_input: <<>> before the first input(), else <<line>>
    today        \* the reading datetime.today() returns

vars == <<pc, data, file, out, user_input, today>>

(***************************************************************************)
(* Bounds.                                                                 *)
(***************************************************************************)
MaxPhones == 2

(***************************************************************************)
(* str: literals and character classes.                                    *)
(***************************************************************************)
\* The ASCII characters of the literals in code point order: 32 to 95, and 97 to 126.
AsciiChars ==
    << " !\"#$%&'()*+,-./0123456789:;<=>?@ABCDEFGHIJKLMNOPQRSTUVWXYZ[\\]^_",
       "abcdefghijklmnopqrstuvwxyz{|}~" >>

Chars(p) == {SubSeq(p, i, i) : i \in 1..Len(p)}

\* ord(c) for one of these characters c
ord ==
    [c \in Chars(AsciiChars[1]) \cup Chars(AsciiChars[2]) |->
        IF c \in Chars(AsciiChars[1])
        THEN 31 + CHOOSE i \in 1..Len(AsciiChars[1]) : SubSeq(AsciiChars[1], i, i) = c
        ELSE 96 + CHOOSE i \in 1..Len(AsciiChars[2]) : SubSeq(AsciiChars[2], i, i) = c]

\* The str of a source literal made of these characters.
U(s) == [i \in 1..Len(s) |-> ord[SubSeq(s, i, i)]]

InRanges(c, ranges) == \E r \in ranges : r[1] <= c /\ c <= r[2]

IsAsciiDigit(c) == c \in 48..57

\* str.isspace(): the characters str.split() and str.strip() treat as whitespace,
\* as ranges <<first, last>> of code points.
Whitespace ==
    {
     <<9, 13>>, <<28, 32>>, <<133, 133>>, <<160, 160>>, <<5760, 5760>>, <<8192, 8202>>,
     <<8232, 8233>>, <<8239, 8239>>, <<8287, 8287>>, <<12288, 12288>>
    }

\* The characters outside 0-9 for which str.isdigit() is true (Numeric_Type Digit
\* or Decimal), as ranges <<first, last>> of code points.
OtherUnicodeDigits ==
    {
     <<178, 179>>, <<185, 185>>, <<1632, 1641>>, <<1776, 1785>>, <<1984, 1993>>,
     <<2406, 2415>>, <<2534, 2543>>, <<2662, 2671>>, <<2790, 2799>>, <<2918, 2927>>,
     <<3046, 3055>>, <<3174, 3183>>, <<3302, 3311>>, <<3430, 3439>>, <<3558, 3567>>,
     <<3664, 3673>>, <<3792, 3801>>, <<3872, 3881>>, <<4160, 4169>>, <<4240, 4249>>,
     <<4969, 4977>>, <<6112, 6121>>, <<6160, 6169>>, <<6470, 6479>>, <<6608, 6618>>,
     <<6784, 6793>>, <<6800, 6809>>, <<6992, 7001>>, <<7088, 7097>>, <<7232, 7241>>,
     <<7248, 7257>>, <<8304, 8304>>, <<8308, 8313>>, <<8320, 8329>>, <<9312, 9320>>,
     <<9332, 9340>>, <<9352, 9360>>, <<9450, 9450>>, <<9461, 9469>>, <<9471, 9471>>,
     <<10102, 10110>>, <<10112, 10120>>, <<10122, 10130>>, <<42528, 42537>>, <<43216, 43225>>,
     <<43264, 43273>>, <<43472, 43481>>, <<43504, 43513>>, <<43600, 43609>>, <<44016, 44025>>,
     <<65296, 65305>>, <<66720, 66729>>, <<68160, 68163>>, <<68912, 68921>>, <<69216, 69224>>,
     <<69714, 69722>>, <<69734, 69743>>, <<69872, 69881>>, <<69942, 69951>>, <<70096, 70105>>,
     <<70384, 70393>>, <<70736, 70745>>, <<70864, 70873>>, <<71248, 71257>>, <<71360, 71369>>,
     <<71472, 71481>>, <<71904, 71913>>, <<72016, 72025>>, <<72784, 72793>>, <<73040, 73049>>,
     <<73120, 73129>>, <<92768, 92777>>, <<92864, 92873>>, <<93008, 93017>>,
     <<120782, 120831>>, <<123200, 123209>>, <<123632, 123641>>, <<125264, 125273>>,
     <<127232, 127242>>, <<130032, 130041>>
    }

\* The characters of category Nd, which int() reads and the \d of re matches, come
\* in runs of ten, worth 0 to 9 in order: the code point of the zero of every run.
DecimalZeros ==
    {
     48, 1632, 1776, 1984, 2406, 2534, 2662, 2790, 2918, 3046, 3174, 3302, 3430, 3558, 3664,
     3792, 3872, 4160, 4240, 6112, 6160, 6470, 6608, 6784, 6800, 6992, 7088, 7232, 7248, 42528,
     43216, 43264, 43472, 43504, 43600, 44016, 65296, 66720, 68912, 69734, 69872, 69942, 70096,
     70384, 70736, 70864, 71248, 71360, 71472, 71904, 72016, 72784, 73040, 73120, 92768, 92864,
     93008, 120782, 120792, 120802, 120812, 120822, 123200, 123632, 125264, 130032
    }

\* str.lower() of one character, where it is one other character: <<first, last,
\* step, delta>> maps first, first + step, ..., last to themselves plus delta.
LowerRuns ==
    {
     <<65, 90, 1, 32>>, <<192, 214, 1, 32>>, <<216, 222, 1, 32>>, <<256, 302, 2, 1>>,
     <<306, 310, 2, 1>>, <<313, 327, 2, 1>>, <<330, 374, 2, 1>>, <<376, 376, 1, -121>>,
     <<377, 381, 2, 1>>, <<385, 385, 1, 210>>, <<386, 388, 2, 1>>, <<390, 390, 1, 206>>,
     <<391, 391, 1, 1>>, <<393, 394, 1, 205>>, <<395, 395, 1, 1>>, <<398, 398, 1, 79>>,
     <<399, 399, 1, 202>>, <<400, 400, 1, 203>>, <<401, 401, 1, 1>>, <<403, 403, 1, 205>>,
     <<404, 404, 1, 207>>, <<406, 406, 1, 211>>, <<407, 407, 1, 209>>, <<408, 408, 1, 1>>,
     <<412, 412, 1, 211>>, <<413, 413, 1, 213>>, <<415, 415, 1, 214>>, <<416, 420, 2, 1>>,
     <<422, 422, 1, 218>>, <<423, 423, 1, 1>>, <<425, 425, 1, 218>>, <<428, 428, 1, 1>>,
     <<430, 430, 1, 218>>, <<431, 431, 1, 1>>, <<433, 434, 1, 217>>, <<435, 437, 2, 1>>,
     <<439, 439, 1, 219>>, <<440, 440, 1, 1>>, <<444, 444, 1, 1>>, <<452, 452, 1, 2>>,
     <<453, 453, 1, 1>>, <<455, 455, 1, 2>>, <<456, 456, 1, 1>>, <<458, 458, 1, 2>>,
     <<459, 475, 2, 1>>, <<478, 494, 2, 1>>, <<497, 497, 1, 2>>, <<498, 500, 2, 1>>,
     <<502, 502, 1, -97>>, <<503, 503, 1, -56>>, <<504, 542, 2, 1>>, <<544, 544, 1, -130>>,
     <<546, 562, 2, 1>>, <<570, 570, 1, 10795>>, <<571, 571, 1, 1>>, <<573, 573, 1, -163>>,
     <<574, 574, 1, 10792>>, <<577, 577, 1, 1>>, <<579, 579, 1, -195>>, <<580, 580, 1, 69>>,
     <<581, 581, 1, 71>>, <<582, 590, 2, 1>>, <<880, 882, 2, 1>>, <<886, 886, 1, 1>>,
     <<895, 895, 1, 116>>, <<902, 902, 1, 38>>, <<904, 906, 1, 37>>, <<908, 908, 1, 64>>,
     <<910, 911, 1, 63>>, <<913, 929, 1, 32>>, <<931, 939, 1, 32>>, <<975, 975, 1, 8>>,
     <<984, 1006, 2, 1>>, <<1012, 1012, 1, -60>>, <<1015, 1015, 1, 1>>, <<1017, 1017, 1, -7>>,
     <<1018, 1018, 1, 1>>, <<1021, 1023, 1, -130>>, <<1024, 1039, 1, 80>>,
     <<1040, 1071, 1, 32>>, <<1120, 1152, 2, 1>>, <<1162, 1214, 2, 1>>, <<1216, 1216, 1, 15>>,
     <<1217, 1229, 2, 1>>, <<1232, 1326, 2, 1>>, <<1329, 1366, 1, 48>>,
     <<4256, 4293, 1, 7264>>, <<4295, 4295, 1, 7264>>, <<4301, 4301, 1, 7264>>,
     <<5024, 5103, 1, 38864>>, <<5104, 5109, 1, 8>>, <<7312, 7354, 1, -3008>>,
     <<7357, 7359, 1, -3008>>, <<7680, 7828, 2, 1>>, <<7838, 7838, 1, -7615>>,
     <<7840, 7934, 2, 1>>, <<7944, 7951, 1, -8>>, <<7960, 7965, 1, -8>>, <<7976, 7983, 1, -8>>,
     <<7992, 7999, 1, -8>>, <<8008, 8013, 1, -8>>, <<8025, 8031, 2, -8>>,
     <<8040, 8047, 1, -8>>, <<8072, 8079, 1, -8>>, <<8088, 8095, 1, -8>>,
     <<8104, 8111, 1, -8>>, <<8120, 8121, 1, -8>>, <<8122, 8123, 1, -74>>,
     <<8124, 8124, 1, -9>>, <<8136, 8139, 1, -86>>, <<8140, 8140, 1, -9>>,
     <<8152, 8153, 1, -8>>, <<8154, 8155, 1, -100>>, <<8168, 8169, 1, -8>>,
     <<8170, 8171, 1, -112>>, <<8172, 8172, 1, -7>>, <<8184, 8185, 1, -128>>,
     <<8186, 8187, 1, -126>>, <<8188, 8188, 1, -9>>, <<8486, 8486, 1, -7517>>,
     <<8490, 8490, 1, -8383>>, <<8491, 8491, 1, -8262>>, <<8498, 8498, 1, 28>>,
     <<8544, 8559, 1, 16>>, <<8579, 8579, 1, 1>>, <<9398, 9423, 1, 26>>,
     <<11264, 11311, 1, 48>>, <<11360, 11360, 1, 1>>, <<11362, 11362, 1, -10743>>,
     <<11363, 11363, 1, -3814>>, <<11364, 11364, 1, -10727>>, <<11367, 11371, 2, 1>>,
     <<11373, 11373, 1, -10780>>, <<11374, 11374, 1, -10749>>, <<11375, 11375, 1, -10783>>,
     <<11376, 11376, 1, -10782>>, <<11378, 11378, 1, 1>>, <<11381, 11381, 1, 1>>,
     <<11390, 11391, 1, -10815>>, <<11392, 11490, 2, 1>>, <<11499, 11501, 2, 1>>,
     <<11506, 11506, 1, 1>>, <<42560, 42604, 2, 1>>, <<42624, 42650, 2, 1>>,
     <<42786, 42798, 2, 1>>, <<42802, 42862, 2, 1>>, <<42873, 42875, 2, 1>>,
     <<42877, 42877, 1, -35332>>, <<42878, 42886, 2, 1>>, <<42891, 42891, 1, 1>>,
     <<42893, 42893, 1, -42280>>, <<42896, 42898, 2, 1>>, <<42902, 42920, 2, 1>>,
     <<42922, 42922, 1, -42308>>, <<42923, 42923, 1, -42319>>, <<42924, 42924, 1, -42315>>,
     <<42925, 42925, 1, -42305>>, <<42926, 42926, 1, -42308>>, <<42928, 42928, 1, -42258>>,
     <<42929, 42929, 1, -42282>>, <<42930, 42930, 1, -42261>>, <<42931, 42931, 1, 928>>,
     <<42932, 42946, 2, 1>>, <<42948, 42948, 1, -48>>, <<42949, 42949, 1, -42307>>,
     <<42950, 42950, 1, -35384>>, <<42951, 42953, 2, 1>>, <<42960, 42960, 1, 1>>,
     <<42966, 42968, 2, 1>>, <<42997, 42997, 1, 1>>, <<65313, 65338, 1, 32>>,
     <<66560, 66599, 1, 40>>, <<66736, 66771, 1, 40>>, <<66928, 66938, 1, 39>>,
     <<66940, 66954, 1, 39>>, <<66956, 66962, 1, 39>>, <<66964, 66965, 1, 39>>,
     <<68736, 68786, 1, 64>>, <<71840, 71871, 1, 32>>, <<93760, 93791, 1, 32>>,
     <<125184, 125217, 1, 34>>
    }

\* The case-ignorable characters, as ranges <<first, last>> of code points.
CaseIgnorable ==
    {
     <<39, 39>>, <<46, 46>>, <<58, 58>>, <<94, 94>>, <<96, 96>>, <<168, 168>>, <<173, 173>>,
     <<175, 175>>, <<180, 180>>, <<183, 184>>, <<688, 879>>, <<884, 885>>, <<890, 890>>,
     <<900, 901>>, <<903, 903>>, <<1155, 1161>>, <<1369, 1369>>, <<1375, 1375>>,
     <<1425, 1469>>, <<1471, 1471>>, <<1473, 1474>>, <<1476, 1477>>, <<1479, 1479>>,
     <<1524, 1524>>, <<1536, 1541>>, <<1552, 1562>>, <<1564, 1564>>, <<1600, 1600>>,
     <<1611, 1631>>, <<1648, 1648>>, <<1750, 1757>>, <<1759, 1768>>, <<1770, 1773>>,
     <<1807, 1807>>, <<1809, 1809>>, <<1840, 1866>>, <<1958, 1968>>, <<2027, 2037>>,
     <<2042, 2042>>, <<2045, 2045>>, <<2070, 2093>>, <<2137, 2139>>, <<2184, 2184>>,
     <<2192, 2193>>, <<2200, 2207>>, <<2249, 2306>>, <<2362, 2362>>, <<2364, 2364>>,
     <<2369, 2376>>, <<2381, 2381>>, <<2385, 2391>>, <<2402, 2403>>, <<2417, 2417>>,
     <<2433, 2433>>, <<2492, 2492>>, <<2497, 2500>>, <<2509, 2509>>, <<2530, 2531>>,
     <<2558, 2558>>, <<2561, 2562>>, <<2620, 2620>>, <<2625, 2626>>, <<2631, 2632>>,
     <<2635, 2637>>, <<2641, 2641>>, <<2672, 2673>>, <<2677, 2677>>, <<2689, 2690>>,
     <<2748, 2748>>, <<2753, 2757>>, <<2759, 2760>>, <<2765, 2765>>, <<2786, 2787>>,
     <<2810, 2815>>, <<2817, 2817>>, <<2876, 2876>>, <<2879, 2879>>, <<2881, 2884>>,
     <<2893, 2893>>, <<2901, 2902>>, <<2914, 2915>>, <<2946, 2946>>, <<3008, 3008>>,
     <<3021, 3021>>, <<3072, 3072>>, <<3076, 3076>>, <<3132, 3132>>, <<3134, 3136>>,
     <<3142, 3144>>, <<3146, 3149>>, <<3157, 3158>>, <<3170, 3171>>, <<3201, 3201>>,
     <<3260, 3260>>, <<3263, 3263>>, <<3270, 3270>>, <<3276, 3277>>, <<3298, 3299>>,
     <<3328, 3329>>, <<3387, 3388>>, <<3393, 3396>>, <<3405, 3405>>, <<3426, 3427>>,
     <<3457, 3457>>, <<3530, 3530>>, <<3538, 3540>>, <<3542, 3542>>, <<3633, 3633>>,
     <<3636, 3642>>, <<3654, 3662>>, <<3761, 3761>>, <<3764, 3772>>, <<3782, 3782>>,
     <<3784, 3789>>, <<3864, 3865>>, <<3893, 3893>>, <<3895, 3895>>, <<3897, 3897>>,
     <<3953, 3966>>, <<3968, 3972>>, <<3974, 3975>>, <<3981, 3991>>, <<3993, 4028>>,
     <<4038, 4038>>, <<4141, 4144>>, <<4146, 4151>>, <<4153, 4154>>, <<4157, 4158>>,
     <<4184, 4185>>, <<4190, 4192>>, <<4209, 4212>>, <<4226, 4226>>, <<4229, 4230>>,
     <<4237, 4237>>, <<4253, 4253>>, <<4348, 4348>>, <<4957, 4959>>, <<5906, 5908>>,
     <<5938, 5939>>, <<5970, 5971>>, <<6002, 6003>>, <<6068, 6069>>, <<6071, 6077>>,
     <<6086, 6086>>, <<6089, 6099>>, <<6103, 6103>>, <<6109, 6109>>, <<6155, 6159>>,
     <<6211, 6211>>, <<6277, 6278>>, <<6313, 6313>>, <<6432, 6434>>, <<6439, 6440>>,
     <<6450, 6450>>, <<6457, 6459>>, <<6679, 6680>>, <<6683, 6683>>, <<6742, 6742>>,
     <<6744, 6750>>, <<6752, 6752>>, <<6754, 6754>>, <<6757, 6764>>, <<6771, 6780>>,
     <<6783, 6783>>, <<6823, 6823>>, <<6832, 6862>>, <<6912, 6915>>, <<6964, 6964>>,
     <<6966, 6970>>, <<6972, 6972>>, <<6978, 6978>>, <<7019, 7027>>, <<7040, 7041>>,
     <<7074, 7077>>, <<7080, 7081>>, <<7083, 7085>>, <<7142, 7142>>, <<7144, 7145>>,
     <<7149, 7149>>, <<7151, 7153>>, <<7212, 7219>>, <<7222, 7223>>, <<7288, 7293>>,
     <<7376, 7378>>, <<7380, 7392>>, <<7394, 7400>>, <<7405, 7405>>, <<7412, 7412>>,
     <<7416, 7417>>, <<7468, 7530>>, <<7544, 7544>>, <<7579, 7679>>, <<8125, 8125>>,
     <<8127, 8129>>, <<8141, 8143>>, <<8157, 8159>>, <<8173, 8175>>, <<8189, 8190>>,
     <<8203, 8207>>, <<8216, 8217>>, <<8228, 8228>>, <<8231, 8231>>, <<8234, 8238>>,
     <<8288, 8292>>, <<8294, 8303>>, <<8305, 8305>>, <<8319, 8319>>, <<8336, 8348>>,
     <<8400, 8432>>, <<11388, 11389>>, <<11503, 11505>>, <<11631, 11631>>, <<11647, 11647>>,
     <<11744, 11775>>, <<11823, 11823>>, <<12293, 12293>>, <<12330, 12333>>, <<12337, 12341>>,
     <<12347, 12347>>, <<12441, 12446>>, <<12540, 12542>>, <<40981, 40981>>, <<42232, 42237>>,
     <<42508, 42508>>, <<42607, 42610>>, <<42612, 42621>>, <<42623, 42623>>, <<42652, 42655>>,
     <<42736, 42737>>, <<42752, 42785>>, <<42864, 42864>>, <<42888, 42890>>, <<42994, 42996>>,
     <<43000, 43001>>, <<43010, 43010>>, <<43014, 43014>>, <<43019, 43019>>, <<43045, 43046>>,
     <<43052, 43052>>, <<43204, 43205>>, <<43232, 43249>>, <<43263, 43263>>, <<43302, 43309>>,
     <<43335, 43345>>, <<43392, 43394>>, <<43443, 43443>>, <<43446, 43449>>, <<43452, 43453>>,
     <<43471, 43471>>, <<43493, 43494>>, <<43561, 43566>>, <<43569, 43570>>, <<43573, 43574>>,
     <<43587, 43587>>, <<43596, 43596>>, <<43632, 43632>>, <<43644, 43644>>, <<43696, 43696>>,
     <<43698, 43700>>, <<43703, 43704>>, <<43710, 43711>>, <<43713, 43713>>, <<43741, 43741>>,
     <<43756, 43757>>, <<43763, 43764>>, <<43766, 43766>>, <<43867, 43871>>, <<43881, 43883>>,
     <<44005, 44005>>, <<44008, 44008>>, <<44013, 44013>>, <<64286, 64286>>, <<64434, 64450>>,
     <<65024, 65039>>, <<65043, 65043>>, <<65056, 65071>>, <<65106, 65106>>, <<65109, 65109>>,
     <<65279, 65279>>, <<65287, 65287>>, <<65294, 65294>>, <<65306, 65306>>, <<65342, 65342>>,
     <<65344, 65344>>, <<65392, 65392>>, <<65438, 65439>>, <<65507, 65507>>, <<65529, 65531>>,
     <<66045, 66045>>, <<66272, 66272>>, <<66422, 66426>>, <<67456, 67461>>, <<67463, 67504>>,
     <<67506, 67514>>, <<68097, 68099>>, <<68101, 68102>>, <<68108, 68111>>, <<68152, 68154>>,
     <<68159, 68159>>, <<68325, 68326>>, <<68900, 68903>>, <<69291, 69292>>, <<69446, 69456>>,
     <<69506, 69509>>, <<69633, 69633>>, <<69688, 69702>>, <<69744, 69744>>, <<69747, 69748>>,
     <<69759, 69761>>, <<69811, 69814>>, <<69817, 69818>>, <<69821, 69821>>, <<69826, 69826>>,
     <<69837, 69837>>, <<69888, 69890>>, <<69927, 69931>>, <<69933, 69940>>, <<70003, 70003>>,
     <<70016, 70017>>, <<70070, 70078>>, <<70089, 70092>>, <<70095, 70095>>, <<70191, 70193>>,
     <<70196, 70196>>, <<70198, 70199>>, <<70206, 70206>>, <<70367, 70367>>, <<70371, 70378>>,
     <<70400, 70401>>, <<70459, 70460>>, <<70464, 70464>>, <<70502, 70508>>, <<70512, 70516>>,
     <<70712, 70719>>, <<70722, 70724>>, <<70726, 70726>>, <<70750, 70750>>, <<70835, 70840>>,
     <<70842, 70842>>, <<70847, 70848>>, <<70850, 70851>>, <<71090, 71093>>, <<71100, 71101>>,
     <<71103, 71104>>, <<71132, 71133>>, <<71219, 71226>>, <<71229, 71229>>, <<71231, 71232>>,
     <<71339, 71339>>, <<71341, 71341>>, <<71344, 71349>>, <<71351, 71351>>, <<71453, 71455>>,
     <<71458, 71461>>, <<71463, 71467>>, <<71727, 71735>>, <<71737, 71738>>, <<71995, 71996>>,
     <<71998, 71998>>, <<72003, 72003>>, <<72148, 72151>>, <<72154, 72155>>, <<72160, 72160>>,
     <<72193, 72202>>, <<72243, 72248>>, <<72251, 72254>>, <<72263, 72263>>, <<72273, 72278>>,
     <<72281, 72283>>, <<72330, 72342>>, <<72344, 72345>>, <<72752, 72758>>, <<72760, 72765>>,
     <<72767, 72767>>, <<72850, 72871>>, <<72874, 72880>>, <<72882, 72883>>, <<72885, 72886>>,
     <<73009, 73014>>, <<73018, 73018>>, <<73020, 73021>>, <<73023, 73029>>, <<73031, 73031>>,
     <<73104, 73105>>, <<73109, 73109>>, <<73111, 73111>>, <<73459, 73460>>, <<78896, 78904>>,
     <<92912, 92916>>, <<92976, 92982>>, <<92992, 92995>>, <<94031, 94031>>, <<94095, 94111>>,
     <<94176, 94177>>, <<94179, 94180>>, <<110576, 110579>>, <<110581, 110587>>,
     <<110589, 110590>>, <<113821, 113822>>, <<113824, 113827>>, <<118528, 118573>>,
     <<118576, 118598>>, <<119143, 119145>>, <<119155, 119170>>, <<119173, 119179>>,
     <<119210, 119213>>, <<119362, 119364>>, <<121344, 121398>>, <<121403, 121452>>,
     <<121461, 121461>>, <<121476, 121476>>, <<121499, 121503>>, <<121505, 121519>>,
     <<122880, 122886>>, <<122888, 122904>>, <<122907, 122913>>, <<122915, 122916>>,
     <<122918, 122922>>, <<123184, 123197>>, <<123566, 123566>>, <<123628, 123631>>,
     <<125136, 125142>>, <<125252, 125259>>, <<127995, 127999>>, <<917505, 917505>>,
     <<917536, 917631>>, <<917760, 917999>>
    }

\* The cased characters that are not case-ignorable, as ranges <<first, last>>.
Cased ==
    {
     <<65, 90>>, <<97, 122>>, <<170, 170>>, <<181, 181>>, <<186, 186>>, <<192, 214>>,
     <<216, 246>>, <<248, 442>>, <<444, 447>>, <<452, 659>>, <<661, 687>>, <<880, 883>>,
     <<886, 887>>, <<891, 893>>, <<895, 895>>, <<902, 902>>, <<904, 906>>, <<908, 908>>,
     <<910, 929>>, <<931, 1013>>, <<1015, 1153>>, <<1162, 1327>>, <<1329, 1366>>,
     <<1376, 1416>>, <<4256, 4293>>, <<4295, 4295>>, <<4301, 4301>>, <<4304, 4346>>,
     <<4349, 4351>>, <<5024, 5109>>, <<5112, 5117>>, <<7296, 7304>>, <<7312, 7354>>,
     <<7357, 7359>>, <<7424, 7467>>, <<7531, 7543>>, <<7545, 7578>>, <<7680, 7957>>,
     <<7960, 7965>>, <<7968, 8005>>, <<8008, 8013>>, <<8016, 8023>>, <<8025, 8025>>,
     <<8027, 8027>>, <<8029, 8029>>, <<8031, 8061>>, <<8064, 8116>>, <<8118, 8124>>,
     <<8126, 8126>>, <<8130, 8132>>, <<8134, 8140>>, <<8144, 8147>>, <<8150, 8155>>,
     <<8160, 8172>>, <<8178, 8180>>, <<8182, 8188>>, <<8450, 8450>>, <<8455, 8455>>,
     <<8458, 8467>>, <<8469, 8469>>, <<8473, 8477>>, <<8484, 8484>>, <<8486, 8486>>,
     <<8488, 8488>>, <<8490, 8493>>, <<8495, 8500>>, <<8505, 8505>>, <<8508, 8511>>,
     <<8517, 8521>>, <<8526, 8526>>, <<8544, 8575>>, <<8579, 8580>>, <<9398, 9449>>,
     <<11264, 11387>>, <<11390, 11492>>, <<11499, 11502>>, <<11506, 11507>>, <<11520, 11557>>,
     <<11559, 11559>>, <<11565, 11565>>, <<42560, 42605>>, <<42624, 42651>>, <<42786, 42863>>,
     <<42865, 42887>>, <<42891, 42894>>, <<42896, 42954>>, <<42960, 42961>>, <<42963, 42963>>,
     <<42965, 42969>>, <<42997, 42998>>, <<43002, 43002>>, <<43824, 43866>>, <<43872, 43880>>,
     <<43888, 43967>>, <<64256, 64262>>, <<64275, 64279>>, <<65313, 65338>>, <<65345, 65370>>,
     <<66560, 66639>>, <<66736, 66771>>, <<66776, 66811>>, <<66928, 66938>>, <<66940, 66954>>,
     <<66956, 66962>>, <<66964, 66965>>, <<66967, 66977>>, <<66979, 66993>>, <<66995, 67001>>,
     <<67003, 67004>>, <<68736, 68786>>, <<68800, 68850>>, <<71840, 71903>>, <<93760, 93823>>,
     <<119808, 119892>>, <<119894, 119964>>, <<119966, 119967>>, <<119970, 119970>>,
     <<119973, 119974>>, <<119977, 119980>>, <<119982, 119993>>, <<119995, 119995>>,
     <<119997, 120003>>, <<120005, 120069>>, <<120071, 120074>>, <<120077, 120084>>,
     <<120086, 120092>>, <<120094, 120121>>, <<120123, 120126>>, <<120128, 120132>>,
     <<120134, 120134>>, <<120138, 120144>>, <<120146, 120485>>, <<120488, 120512>>,
     <<120514, 120538>>, <<120540, 120570>>, <<120572, 120596>>, <<120598, 120628>>,
     <<120630, 120654>>, <<120656, 120686>>, <<120688, 120712>>, <<120714, 120744>>,
     <<120746, 120770>>, <<120772, 120779>>, <<122624, 122633>>, <<122635, 122654>>,
     <<125184, 125251>>, <<127280, 127305>>, <<127312, 127337>>, <<127344, 127369>>
    }
\* str.isdigit(): non-empty and every character is a Unicode digit.
isdigit(s) ==
    /\ Len(s) > 0
    /\ \A i \in 1..Len(s) : IsAsciiDigit(s[i]) \/ InRanges(s[i], OtherUnicodeDigits)

\* The characters the \d of a str pattern matches and int() reads.
IsDecimal(c) == IsAsciiDigit(c) \/ \E z \in DecimalZeros : z <= c /\ c <= z + 9

DigitVal(c) ==
    IF IsAsciiDigit(c) THEN c - 48
    ELSE c - (CHOOSE z \in DecimalZeros : z <= c /\ c <= z + 9)

\* int(s) for s made of decimal digits, optionally after one leading space.
RECURSIVE int(_)
int(s) ==
    IF Len(s) = 0 THEN 0
    ELSE IF s[1] = 32 THEN int(Tail(s))
    ELSE 10 * int(SubSeq(s, 1, Len(s) - 1)) + DigitVal(s[Len(s)])

\* str(n) for a natural number n.
RECURSIVE str(_)
str(n) == IF n < 10 THEN <<48 + n>> ELSE Append(str(n \div 10), 48 + (n % 10))

\* the zero-padded decimal of strftime's %d and %m (w = 2)
RECURSIVE ZeroPad(_, _)
ZeroPad(s, w) == IF Len(s) >= w THEN s ELSE ZeroPad(<<48>> \o s, w)

\* str.lower() of one character other than capital sigma: a str of length 1, or
\* of length 2 for U+0130.
LowerChar(c) ==
    IF c = 304 THEN <<105, 775>>
    ELSE IF \E r \in LowerRuns : r[1] <= c /\ c <= r[2] /\ (c - r[1]) % r[3] = 0
    THEN LET r == CHOOSE r \in LowerRuns : r[1] <= c /\ c <= r[2] /\ (c - r[1]) % r[3] = 0
         IN <<c + r[4]>>
    ELSE <<c>>

\* The capital sigma at s[i] is final: the nearest character before it that is
\* not case-ignorable is cased, and the nearest one after it, if any, is not.
FinalSigma(s, i) ==
    LET before == {j \in 1..(i - 1) : ~InRanges(s[j], CaseIgnorable)}
        after  == {j \in (i + 1)..Len(s) : ~InRanges(s[j], CaseIgnorable)}
    IN /\ before # {}
       /\ InRanges(s[CHOOSE j \in before : \A k \in before : k <= j], Cased)
       /\ \/ after = {}
          \/ ~InRanges(s[CHOOSE j \in after : \A k \in after : j <= k], Cased)

\* lower() of s[i..]
RECURSIVE LowerFrom(_, _)
LowerFrom(s, i) ==
    IF i > Len(s) THEN <<>>
    ELSE (IF s[i] = 931 THEN (IF FinalSigma(s, i) THEN <<962>> ELSE <<963>>)
          ELSE LowerChar(s[i]))
         \o LowerFrom(s, i + 1)

\* str.lower()
lower(s) == LowerFrom(s, 1)

\* str.strip()
RECURSIVE strip(_)
strip(s) ==
    IF Len(s) = 0 THEN <<>>
    ELSE IF InRanges(s[1], Whitespace) THEN strip(Tail(s))
    ELSE IF InRanges(s[Len(s)], Whitespace) THEN strip(SubSeq(s, 1, Len(s) - 1))
    ELSE s

\* str.split(): the maximal runs of non-whitespace, in order.
RECURSIVE SplitWords(_, _, _)
SplitWords(s, i, cur) ==
    IF i > Len(s) THEN (IF cur = <<>> THEN <<>> ELSE <<cur>>)
    ELSE IF InRanges(s[i], Whitespace)
         THEN (IF cur = <<>> THEN <<>> ELSE <<cur>>) \o SplitWords(s, i + 1, <<>>)
         ELSE SplitWords(s, i + 1, Append(cur, s[i]))

split(s) == SplitWords(s, 1, <<>>)

\* sep.join(parts)
RECURSIVE join(_, _)
join(sep, parts) ==
    IF Len(parts) = 0 THEN <<>>
    ELSE IF Len(parts) = 1 THEN parts[1]
    ELSE parts[1] \o sep \o join(sep, Tail(parts))

\* s.startswith(p)
startswith(s, p) == Len(s) >= Len(p) /\ SubSeq(s, 1, Len(p)) = p

(***************************************************************************)
(* Exceptions and results.                                                 *)
(***************************************************************************)
NoExc == "None"

(***************************************************************************)
(* class Phone                                                             *)
(***************************************************************************)
Phone_is_valid(value) == isdigit(value) /\ Len(value) = 10

(***************************************************************************)
(* The calendar of datetime.                                               *)
(***************************************************************************)
IsLeap(y) == (y % 4 = 0) /\ ((y % 100 # 0) \/ (y % 400 = 0))

DaysInMonth(y, m) ==
    IF m = 2 THEN (IF IsLeap(y) THEN 29 ELSE 28)
    ELSE IF m \in {4, 6, 9, 11} THEN 30 ELSE 31

DaysBeforeYear(y) ==
    LET p == y - 1 IN 365 * p + (p \div 4) - (p \div 100) + (p \div 400)

RECURSIVE DaysBeforeMonth(_, _)
DaysBeforeMonth(y, m) ==
    IF m = 1 THEN 0 ELSE DaysBeforeMonth(y, m - 1) + DaysInMonth(y, m - 1)

\* date.toordinal()
toordinal(d) == DaysBeforeYear(d.year) + DaysBeforeMonth(d.year, d.month) + d.day

\* The regular expressions strptime builds for %d, %m and %Y:
\*   3[0-1]|[1-2]\d|0[1-9]|[1-9]| [1-9],   1[0-2]|0[1-9]|[1-9],   \d\d\d\d
\* A class such as [1-9] holds ASCII digits only; \d is any decimal digit.
MatchDay(t) ==
    \/ Len(t) = 1 /\ t[1] \in 49..57
    \/ /\ Len(t) = 2
       /\ \/ t[1] = 51 /\ t[2] \in 48..49
          \/ t[1] \in 49..50 /\ IsDecimal(t[2])
          \/ t[1] \in {48, 32} /\ t[2] \in 49..57

MatchMonth(t) ==
    \/ Len(t) = 1 /\ t[1] \in 49..57
    \/ /\ Len(t) = 2
       /\ \/ t[1] = 49 /\ t[2] \in 48..50
          \/ t[1] = 48 /\ t[2] \in 49..57

MatchYear(t) == Len(t) = 4 /\ \A i \in 1..4 : IsDecimal(t[i])

Dots(s) == {i \in 1..Len(s) : s[i] = 46}

\* datetime.strptime(value, "%d.%m.%Y"): <<>> when it raises ValueError, else
\* <<date>>.  The time of day of the result is 00:00:00.
strptime(value) ==
    LET ds == Dots(value) IN
    IF Cardinality(ds) # 2 THEN <<>>
    ELSE LET i == CHOOSE k \in ds : \A l \in ds : k <= l
             j == CHOOSE k \in ds : \A l \in ds : l <= k
             dt == SubSeq(value, 1, i - 1)
             mt == SubSeq(value, i + 1, j - 1)
             yt == SubSeq(value, j + 1, Len(value))
         IN IF ~(MatchDay(dt) /\ MatchMonth(mt) /\ MatchYear(yt)) THEN <<>>
            ELSE IF int(yt) < 1 \/ int(dt) > DaysInMonth(int(yt), int(mt)) THEN <<>>
            ELSE << [year |-> int(yt), month |-> int(mt), day |-> int(dt)] >>

\* datetime.strftime('%d.%m.%Y'): the C library pads %d and %m, not %Y.
strftime(d) ==
    ZeroPad(str(d.day), 2) \o U(".") \o ZeroPad(str(d.month), 2) \o U(".") \o str(d.year)

(***************************************************************************)
(* class Birthday                                                          *)
(***************************************************************************)
Birthday_is_valid(value) == strptime(value) # <<>>

(***************************************************************************)
(* class Record: [name, phones, birthday]; birthday is <<>> for None.      *)
(* A method returns [exc, val, rec]: rec is the record after the call.     *)
(***************************************************************************)
Record(name) == [name |-> name, phones |-> <<>>, birthday |-> <<>>]

Record_add_phone(r, phone) ==
    IF Phone_is_valid(phone)
    THEN [exc |-> NoExc, val |-> <<>>, rec |-> [r EXCEPT !.phones = Append(@, phone)]]
    ELSE [exc |-> "ValueError", val |-> U("Invalid phone number. Should contain 10 digits."),
          rec |-> r]

\* The index of the first phone whose value is `phone`, 0 for None.
Record_find_phone(r, phone) ==
    IF \E i \in 1..Len(r.phones) : r.phones[i] = phone
    THEN CHOOSE i \in 1..Len(r.phones) :
            /\ r.phones[i] = phone
            /\ \A j \in 1..(i - 1) : r.phones[j] # phone
    ELSE 0

RemoveAt(s, i) == SubSeq(s, 1, i - 1) \o SubSeq(s, i + 1, Len(s))

\* Mutant: removes every phone equal to `phone` instead of the first one found.
RECURSIVE Without(_, _)
Without(s, x) ==
    IF s = <<>> THEN <<>>
    ELSE (IF Head(s) = x THEN <<>> ELSE <<Head(s)>>) \o Without(Tail(s), x)

Record_remove_phone_all(r, phone) ==
    IF Record_find_phone(r, phone) # 0
    THEN [exc |-> NoExc, val |-> <<>>, rec |-> [r EXCEPT !.phones = Without(@, phone)]]
    ELSE [exc |-> "ValueError", val |-> U("The phone is absent"), rec |-> r]

Record_remove_phone(r, phone) ==
    LET phone_obj == Record_find_phone(r, phone) IN
    IF phone_obj # 0
    THEN [exc |-> NoExc, val |-> <<>>, rec |-> [r EXCEPT !.phones = RemoveAt(@, phone_obj)]]
    ELSE [exc |-> "ValueError", val |-> U("The phone is absent"), rec |-> r]

\* Mutant: the new phone is validated only by add_phone, after the removal.
Record_edit_phone_late_check(r, old_phone, new_phone) ==
    IF Record_find_phone(r, old_phone) # 0
    THEN LET removed == Record_remove_phone(r, old_phone)
             added   == Record_add_phone(removed.rec, new_phone)
         IN IF removed.exc # NoExc THEN removed
            ELSE IF added.exc # NoExc THEN added
            ELSE [exc |-> NoExc,
                  val |-> U("Phone number updated: ") \o old_phone \o U(" -> ") \o new_phone,
                  rec |-> added.rec]
    ELSE [exc |-> "ValueError", val |-> U("The old phone is not found"), rec |-> r]

Record_edit_phone(r, old_phone, new_phone) ==
    IF ~Phone_is_valid(new_phone)
    THEN [exc |-> "ValueError", val |-> U("Invalid number. Should contain 10 digits."),
          rec |-> r]
    ELSE IF Record_find_phone(r, old_phone) # 0
    THEN LET removed == Record_remove_phone(r, old_phone)
             added   == Record_add_phone(removed.rec, new_phone)
         IN IF removed.exc # NoExc THEN removed
            ELSE IF added.exc # NoExc THEN added
            ELSE [exc |-> NoExc,
                  val |-> U("Phone number updated: ") \o old_phone \o U(" -> ") \o new_phone,
                  rec |-> added.rec]
    ELSE [exc |-> "ValueError", val |-> U("The old phone is not found"), rec |-> r]

Record_add_birthday(r, birthday) ==
    IF Birthday_is_valid(birthday)
    THEN [exc |-> NoExc, val |-> <<>>, rec |-> [r EXCEPT !.birthday = <<birthday>>]]
    ELSE [exc |-> "ValueError", val |-> U("Invalid date format. Use DD.MM.YYYY."), rec |-> r]

Record_show_birthday(r) ==
    IF r.birthday # <<>> THEN r.birthday[1] ELSE U("Birthday not set.")

Record_str(r) ==
    r.name \o U(": ") \o join(U(", "), r.phones) \o U("; Birthday: ") \o Record_show_birthday(r)

(***************************************************************************)
(* class ConsoleView: each method yields the lines it prints.              *)
(***************************************************************************)
display_message(message) == <<message>>

display_contacts(contacts) ==
    IF contacts = <<>> THEN <<U("No contacts found.")>> ELSE contacts

display_help(commands) ==
    <<U("Available commands:")>>
    \o [i \in 1..Len(commands) |-> commands[i][1] \o U(": ") \o commands[i][2]]

(***************************************************************************)
(* class AddressBook: data is the sequence of records in insertion order.  *)
(***************************************************************************)
\* The index of the record stored under `name`, 0 for None.
AddressBook_find(book, name) ==
    IF \E i \in 1..Len(book) : book[i].name = name
    THEN CHOOSE i \in 1..Len(book) : book[i].name = name
    ELSE 0

\* self.data[name] = record, then the notification: [book, shown].
AddressBook_add_record(book, record) ==
    LET i == AddressBook_find(book, record.name) IN
    [book  |-> IF i = 0 THEN Append(book, record) ELSE [book EXCEPT ![i] = record],
     shown |-> display_message(U("Contact ") \o record.name \o U(" added successfully!"))]

AddressBook_show_all(book) ==
    IF book = <<>> THEN display_message(U("No contacts found."))
    ELSE display_contacts([i \in 1..Len(book) |-> Record_str(book[i])])

\* datetime.replace(year=...): <<>> when it raises ValueError.
replace_year(d, y) ==
    IF d.day > DaysInMonth(y, d.month) THEN <<>> ELSE << [d EXCEPT !.year = y] >>

\* timedelta(days, seconds, microseconds).days after normalisation
timedelta_days(days, seconds, microseconds) ==
    LET s == seconds + (microseconds \div 1000000) IN days + (s \div 86400)

\* (this_year_bday - now).days: this_year_bday is at 00:00:00, now has a time of day.
days_until(this_year_bday, now) ==
    timedelta_days(toordinal(this_year_bday) - toordinal(now),
                   0 - (now.hour * 3600 + now.minute * 60 + now.second),
                   0 - now.microsecond)

\* The loop of get_upcoming_birthdays from record i on: [exc, lines].
RECURSIVE UpcomingFrom(_, _, _)
UpcomingFrom(book, i, now) ==
    IF i > Len(book) THEN [exc |-> NoExc, lines |-> <<>>]
    ELSE IF book[i].birthday = <<>> THEN UpcomingFrom(book, i + 1, now)
    ELSE LET bday           == strptime(book[i].birthday[1])[1]
             this_year_bday == replace_year(bday, now.year)
         IN IF this_year_bday = <<>>
            THEN [exc |-> "ValueError", lines |-> <<>>]
            ELSE LET rest == UpcomingFrom(book, i + 1, now)
                     n    == days_until(this_year_bday[1], now)
                 IN IF rest.exc # NoExc THEN rest
                    ELSE IF 0 <= n /\ n <= 7
                    THEN [rest EXCEPT !.lines =
                            <<book[i].name \o U(": ") \o strftime(this_year_bday[1])>> \o @]
                    ELSE rest

AddressBook_get_upcoming_birthdays(book, now) ==
    LET r == UpcomingFrom(book, 1, now) IN
    IF r.exc # NoExc THEN [exc |-> r.exc, val |-> U("day is out of range for month")]
    ELSE IF r.lines = <<>> THEN [exc |-> NoExc, val |-> U("No birthdays in the next week.")]
    ELSE [exc |-> NoExc, val |-> join(<<10>>, r.lines)]

HelpCommands ==
    << <<U("add"), U("Add a new contact")>>,
       <<U("change"), U("Change an existing contact")>>,
       <<U("phone"), U("Show phones of a contact")>>,
       <<U("all"), U("Show all contacts")>>,
       <<U("add-birthday"), U("Add a birthday to a contact")>>,
       <<U("show-birthday"), U("Show the birthday of a contact")>>,
       <<U("birthdays"), U("Show upcoming birthdays")>> >>

AddressBook_show_help == display_help(HelpCommands)

(***************************************************************************)
(* Persistence.  pickle.dump writes the object graph as a stream of        *)
(* opcodes; pickle.load rebuilds the objects from the stream.              *)
(***************************************************************************)
\* Mutant: the birthday is not written.
PickleRecord_no_birthday(r) ==
    <<[op |-> "Record", arg |-> r.name]>>
    \o [i \in 1..Len(r.phones) |-> [op |-> "Phone", arg |-> r.phones[i]]]

PickleRecord(r) ==
    <<[op |-> "Record", arg |-> r.name]>>
    \o [i \in 1..Len(r.phones) |-> [op |-> "Phone", arg |-> r.phones[i]]]
    \o (IF r.birthday = <<>> THEN <<[op |-> "NoBirthday", arg |-> <<>>]>>
        ELSE <<[op |-> "Birthday", arg |-> r.birthday[1]]>>)

RECURSIVE pickle_dump(_)
pickle_dump(book) ==
    IF book = <<>> THEN <<>> ELSE PickleRecord(book[1]) \o pickle_dump(Tail(book))

\* The stream's first n opcodes applied to an empty AddressBook.
RECURSIVE UnpickleUpTo(_, _)
UnpickleUpTo(stream, n) ==
    IF n = 0 THEN <<>>
    ELSE LET book == UnpickleUpTo(stream, n - 1)
             o    == stream[n]
             last == Len(book)
         IN IF o.op = "Record" THEN Append(book, Record(o.arg))
            ELSE IF o.op = "Phone"
            THEN [book EXCEPT ![last].phones = Append(@, o.arg)]
            ELSE IF o.op = "Birthday"
            THEN [book EXCEPT ![last].birthday = <<o.arg>>]
            ELSE book

pickle_load(stream) == UnpickleUpTo(stream, Len(stream))

\* save_data(book): the file after the call
save_data(book) == <<pickle_dump(book)>>

\* load_data(): the AddressBook it returns, given the file
load_data(f) == IF f = <<>> THEN <<>> ELSE pickle_load(f[1])

(***************************************************************************)
(* The input_error decorator and the handlers.  A handler returns          *)
(* [exc, val, book, shown]: book is the AddressBook after the call and     *)
(* shown what the view displayed during it.                                *)
(***************************************************************************)
input_error(res) ==
    IF res.exc = "IndexError"
    THEN [res EXCEPT !.exc = NoExc, !.val = U("Error: Not enough arguments.")]
    ELSE IF res.exc \in {"KeyError", "ValueError"}
    THEN [res EXCEPT !.exc = NoExc, !.val = U("Error: ") \o res.val]
    ELSE res

Raise(exc, msg, book, shown) == [exc |-> exc, val |-> msg, book |-> book, shown |-> shown]

Return(val, book, shown) == [exc |-> NoExc, val |-> val, book |-> book, shown |-> shown]

\* Mutant: a fresh Record is stored even when the name is already known.
add_contact_overwrite(args, book) ==
    IF Len(args) < 2
    THEN Raise("ValueError",
               U("not enough values to unpack (expected at least 2, got ")
               \o str(Len(args)) \o U(")"),
               book, <<>>)
    ELSE LET name   == args[1]
             phone  == args[2]
             found  == AddressBook_find(book, name)
             added  == AddressBook_add_record(book, Record(name))
             idx    == AddressBook_find(added.book, name)
             message == IF found = 0 THEN U("Contact added.") ELSE U("Contact updated.")
             r      == Record_add_phone(added.book[idx], phone)
         IN IF r.exc # NoExc THEN Raise(r.exc, r.val, added.book, IF found = 0 THEN added.shown ELSE <<>>)
            ELSE Return(message, [added.book EXCEPT ![idx] = r.rec],
                        IF found = 0 THEN added.shown ELSE <<>>)

add_contact(args, book) ==
    IF Len(args) < 2
    THEN Raise("ValueError",
               U("not enough values to unpack (expected at least 2, got ")
               \o str(Len(args)) \o U(")"),
               book, <<>>)
    ELSE LET name   == args[1]
             phone  == args[2]
             found  == AddressBook_find(book, name)
             added  == AddressBook_add_record(book, Record(name))
             book1  == IF found = 0 THEN added.book ELSE book
             shown  == IF found = 0 THEN added.shown ELSE <<>>
             idx    == AddressBook_find(book1, name)
             message == IF found = 0 THEN U("Contact added.") ELSE U("Contact updated.")
             r      == Record_add_phone(book1[idx], phone)
         IN IF r.exc # NoExc THEN Raise(r.exc, r.val, book1, shown)
            ELSE Return(message, [book1 EXCEPT ![idx] = r.rec], shown)

change_contact(args, book) ==
    IF Len(args) < 3
    THEN Raise("ValueError",
               U("not enough values to unpack (expected 3, got ") \o str(Len(args)) \o U(")"),
               book, <<>>)
    ELSE IF Len(args) > 3
    THEN Raise("ValueError", U("too many values to unpack (expected 3)"), book, <<>>)
    ELSE LET name  == args[1]
             found == AddressBook_find(book, name)
         IN IF found # 0
            THEN LET r == Record_edit_phone(book[found], args[2], args[3])
                 IN IF r.exc # NoExc THEN Raise(r.exc, r.val, [book EXCEPT ![found] = r.rec], <<>>)
                    ELSE Return(r.val, [book EXCEPT ![found] = r.rec], <<>>)
            ELSE Return(U("Error: contact '") \o name \o U("' not found."), book, <<>>)

show_phone(args, book) ==
    IF Len(args) < 1 THEN Raise("IndexError", U("list index out of range"), book, <<>>)
    ELSE LET name  == args[1]
             found == AddressBook_find(book, name)
         IN IF found # 0
            THEN Return(name \o U(": ") \o join(U(", "), book[found].phones), book, <<>>)
            ELSE Return(U("Error: contact '") \o name \o U("' not found."), book, <<>>)

add_birthday(args, book) ==
    IF Len(args) < 2
    THEN Raise("ValueError",
               U("not enough values to unpack (expected 2, got ") \o str(Len(args)) \o U(")"),
               book, <<>>)
    ELSE IF Len(args) > 2
    THEN Raise("ValueError", U("too many values to unpack (expected 2)"), book, <<>>)
    ELSE LET name  == args[1]
             found == AddressBook_find(book, name)
         IN IF found # 0
            THEN LET r == Record_add_birthday(book[found], args[2])
                 IN IF r.exc # NoExc THEN Raise(r.exc, r.val, [book EXCEPT ![found] = r.rec], <<>>)
                    ELSE Return(U("Birthday added."), [book EXCEPT ![found] = r.rec], <<>>)
            ELSE Return(U("Error: contact '") \o name \o U("' not found."), book, <<>>)

show_birthday(args, book) ==
    IF Len(args) < 1 THEN Raise("IndexError", U("list index out of range"), book, <<>>)
    ELSE LET name  == args[1]
             found == AddressBook_find(book, name)
         IN IF found # 0
            THEN Return(name \o U(": ") \o Record_show_birthday(book[found]), book, <<>>)
            ELSE Return(U("Error: contact '") \o name \o U("' not found."), book, <<>>)

birthdays(args, book, now) ==
    LET r == AddressBook_get_upcoming_birthdays(book, now) IN
    [exc |-> r.exc, val |-> r.val, book |-> book, shown |-> <<>>]

\* parse_input: [exc, cmd, args]
parse_input(line) ==
    LET tokens == split(line) IN
    IF Len(tokens) < 1
    THEN [exc |-> "ValueError", cmd |-> <<>>, args |-> <<>>]
    ELSE [exc |-> NoExc, cmd |-> lower(strip(tokens[1])), args |-> Tail(tokens)]

(***************************************************************************)
(* The inputs: the lines a user types at the prompt and the clock.         *)
(***************************************************************************)
Names == {U("Alice"), U("Bob")}

\* ten SUPERSCRIPT TWO characters (U+00B2)
SuperscriptTwos == [i \in 1..10 |-> 178]

PhoneInputs == {U("0501234567"), U("0509999999"), U("12345"), SuperscriptTwos}

BirthdayInputs == {U("05.01.1990"), U("29.02.2000"), U("30.02.2000"), U("1990-01-05")}

\* 29.02.2000 with ARABIC-INDIC DIGIT NINE (U+0669) and ZERO (U+0660) in it
ArabicIndicBirthday == U("2") \o <<1641>> \o U(".02.200") \o <<1632>>

\* a line that is one NO-BREAK SPACE (U+00A0)
NoBreakSpace == <<160>>

Lines ==
    {U(""), U("  "), NoBreakSpace, U("hello"), U("help"), U("all"), U("birthdays"),
     U("exit"), U("CLOSE"), U("bogus"),
     U("add"), U("add Alice"), U("add Alice 0501234567 home"),
     U("change Alice 0501234567"), U("change Alice 0501234567 0509999999 now"),
     U("phone"), U("show-birthday"), U("add-birthday Alice"),
     U("add-birthday Alice 05.01.1990 x"),
     U("add Bob ") \o SuperscriptTwos, U("add Bob 12345"),
     U("change Bob 0501234567 0509999999"),
     U("add-birthday Bob ") \o ArabicIndicBirthday}
    \cup {U("add Alice ") \o p : p \in PhoneInputs \ {SuperscriptTwos}}
    \cup {U("change Alice ") \o p \o U(" ") \o q :
            p \in {U("0501234567"), U("0509999999")},
            q \in {U("0501234567"), U("0509999999"), U("12345")}}
    \cup {U("phone ") \o n : n \in Names}
    \cup {U("add-birthday Alice ") \o b : b \in BirthdayInputs \ {U("29.02.2000")}}
    \cup {U("show-birthday ") \o n : n \in Names}

SessionLines ==
    {U(""), NoBreakSpace, U("hello"), U("help"), U("all"), U("birthdays"), U("exit"),
     U("close"), U("bogus"), U("add Alice 0501234567"), U("add Bob 12345"),
     U("change Alice 0501234567 0509999999"), U("phone Alice"),
     U("add-birthday Alice 05.01.1990"), U("show-birthday Alice")}

\* parse_input of every line of the inputs, computed once.
Parsed == [line \in Lines \cup SessionLines |-> parse_input(line)]

Clock(y, m, d, h, mi, s, us) ==
    [year |-> y, month |-> m, day |-> d, hour |-> h, minute |-> mi, second |-> s,
     microsecond |-> us]

Noon == Clock(2025, 1, 1, 12, 0, 0, 0)

(***************************************************************************)
(* main().                                                                 *)
(***************************************************************************)
Welcome == display_message(U("Welcome to the assistant bot!"))

\* After main() has built its view and AddressBook and shown the welcome line.
Init ==
    /\ pc = "prompt"
    /\ data = <<>>
    /\ file = <<>>
    /\ out = Welcome
    /\ user_input = <<>>
    /\ today = Noon

\* main() is run again after it returned or died: book = AddressBook(view=view).
MainStart ==
    /\ pc \in {"stopped", "crashed"}
    /\ pc' = "prompt"
    /\ data' = <<>>
    /\ out' = Welcome
    /\ user_input' = <<>>
    /\ UNCHANGED <<file, today>>

\* user_input = input(...); command, args = parse_input(user_input)
Read(line, commands) ==
    /\ pc = "prompt"
    /\ user_input' = <<line>>
    /\ Parsed[line].exc = NoExc
    /\ Parsed[line].cmd \in commands

\* view.display_message(handler(args, book)) for the handler's result r
Show(r) ==
    /\ \A i \in 1..Len(r.book) : Len(r.book[i].phones) <= MaxPhones
    /\ data' = r.book
    /\ IF r.exc = NoExc
       THEN pc' = "prompt" /\ out' = r.shown \o display_message(r.val)
       ELSE pc' = "crashed" /\ out' = r.shown
    /\ UNCHANGED <<file, today>>

\* parse_input raises: nothing in main() catches it.
MainParseError(line) ==
    /\ pc = "prompt"
    /\ user_input' = <<line>>
    /\ Parsed[line].exc # NoExc
    /\ pc' = "crashed"
    /\ out' = <<>>
    /\ UNCHANGED <<data, file, today>>

ExitCommands == {U("close"), U("exit")}

CmdExit(line) ==
    /\ Read(line, ExitCommands)
    /\ out' = display_message(U("Good bye!"))
    /\ file' = save_data(data)
    /\ pc' = "stopped"
    /\ UNCHANGED <<data, today>>

CmdHello(line) ==
    /\ Read(line, {U("hello")})
    /\ out' = display_message(U("How can I help you?"))
    /\ UNCHANGED <<pc, data, file, today>>

CmdAdd(line) ==
    /\ Read(line, {U("add")})
    /\ Show(input_error(add_contact(Parsed[line].args, data)))

CmdChange(line) ==
    /\ Read(line, {U("change")})
    /\ Show(input_error(change_contact(Parsed[line].args, data)))

CmdPhone(line) ==
    /\ Read(line, {U("phone")})
    /\ Show(input_error(show_phone(Parsed[line].args, data)))

CmdAll(line) ==
    /\ Read(line, {U("all")})
    /\ out' = AddressBook_show_all(data)
    /\ UNCHANGED <<pc, data, file, today>>

CmdAddBirthday(line) ==
    /\ Read(line, {U("add-birthday")})
    /\ Show(input_error(add_birthday(Parsed[line].args, data)))

CmdShowBirthday(line) ==
    /\ Read(line, {U("show-birthday")})
    /\ Show(input_error(show_birthday(Parsed[line].args, data)))

CmdBirthdays(line) ==
    /\ Read(line, {U("birthdays")})
    /\ Show(input_error(birthdays(Parsed[line].args, data, today)))

CmdHelp(line) ==
    /\ Read(line, {U("help")})
    /\ out' = AddressBook_show_help
    /\ UNCHANGED <<pc, data, file, today>>

KnownCommands ==
    {U("close"), U("exit"), U("hello"), U("add"), U("change"), U("phone"), U("all"),
     U("add-birthday"), U("show-birthday"), U("birthdays"), U("help")}

CmdInvalid(line) ==
    /\ pc = "prompt"
    /\ user_input' = <<line>>
    /\ Parsed[line].exc = NoExc
    /\ Parsed[line].cmd \notin KnownCommands
    /\ out' = display_message(U("Invalid command."))
    /\ UNCHANGED <<pc, data, file, today>>

\* One session of main(), every kind of line.
Next ==
    \/ \E line \in Lines : MainParseError(line)
    \/ \E line \in Lines : CmdExit(line)
    \/ \E line \in Lines : CmdHello(line)
    \/ \E line \in Lines : CmdAdd(line)
    \/ \E line \in Lines : CmdChange(line)
    \/ \E line \in Lines : CmdPhone(line)
    \/ \E line \in Lines : CmdAll(line)
    \/ \E line \in Lines : CmdAddBirthday(line)
    \/ \E line \in Lines : CmdShowBirthday(line)
    \/ \E line \in Lines : CmdBirthdays(line)
    \/ \E line \in Lines : CmdHelp(line)
    \/ \E line \in Lines : CmdInvalid(line)

Spec == Init /\ [][Next]_vars

\* Session after session over the same addressbook.pkl.
NextSession ==
    \/ MainStart
    \/ \E line \in SessionLines : MainParseError(line)
    \/ \E line \in SessionLines : CmdExit(line)
    \/ \E line \in SessionLines : CmdHello(line)
    \/ \E line \in SessionLines : CmdAdd(line)
    \/ \E line \in SessionLines : CmdChange(line)
    \/ \E line \in SessionLines : CmdPhone(line)
    \/ \E line \in SessionLines : CmdAll(line)
    \/ \E line \in SessionLines : CmdAddBirthday(line)
    \/ \E line \in SessionLines : CmdShowBirthday(line)
    \/ \E line \in SessionLines : CmdBirthdays(line)
    \/ \E line \in SessionLines : CmdHelp(line)
    \/ \E line \in SessionLines : CmdInvalid(line)

SpecSession == Init /\ [][NextSession]_vars

(***************************************************************************)
(* The birthdays command over address books with birthdays around the      *)
(* clock reading, at several times of day.                                 *)
(***************************************************************************)
BirthdayDays ==
    {U("28.12"), U("31.12"), U("01.01"), U("02.01"), U("04.01"), U("05.01"), U("08.01"),
     U("09.01"), U("10.01"), U("25.02"), U("29.02"), U("03.03"), U("04.03"), U("05.03")}

BirthYears == {U("1990"), U("2000")}

BirthdayValues ==
    {b \in {dm \o U(".") \o y : dm \in BirthdayDays, y \in BirthYears} : Birthday_is_valid(b)}

Contact(name, phone, birthday) == [name |-> name, phones |-> <<phone>>, birthday |-> birthday]

BirthdayBooks ==
    {<<Contact(U("Alice"), U("0501234567"), <<a>>)>> : a \in BirthdayValues}
    \cup {<<Contact(U("Alice"), U("0501234567"), <<a>>),
            Contact(U("Bob"), U("0509999999"), <<b>>)>> :
            a \in BirthdayValues, b \in BirthdayValues}
    \cup {<<Contact(U("Bob"), U("0509999999"), <<>>),
            Contact(U("Alice"), U("0501234567"), <<a>>)>> :
            a \in BirthdayValues}

ClockDates == {<<2025, 1, 1>>, <<2024, 12, 28>>, <<2024, 2, 25>>, <<2025, 2, 25>>}

ClockTimes == {<<0, 0, 0, 0>>, <<0, 0, 0, 1>>, <<12, 0, 0, 0>>, <<23, 59, 59, 999999>>}

Clocks == {Clock(d[1], d[2], d[3], t[1], t[2], t[3], t[4]) : d \in ClockDates, t \in ClockTimes}

\* The book was just completed by the add-birthday of its last record with a birthday.
InitBirthdays ==
    /\ pc = "prompt"
    /\ data \in BirthdayBooks
    /\ file = <<>>
    /\ out = display_message(U("Birthday added."))
    /\ user_input = <<U("add-birthday ") \o data[Len(data)].name \o U(" ")
                        \o data[Len(data)].birthday[1]>>
    /\ today \in Clocks

NextBirthdays == \E line \in {U("birthdays")} : CmdBirthdays(line)

SpecBirthdays == InitBirthdays /\ [][NextBirthdays]_vars

(***************************************************************************)
(* Properties.                                                             *)
(***************************************************************************)
Range(s) == {s[i] : i \in 1..Len(s)}

Count(s, x) == Cardinality({i \in 1..Len(s) : s[i] = x})

Last(s) == s[Len(s)]

HasContact(book, name) == AddressBook_find(book, name) # 0

PhonesOf(book, name) == book[AddressBook_find(book, name)].phones

\* The step reads, at the prompt, a line that parses to command cmd.
ReadsCommand(cmd) ==
    /\ pc = "prompt"
    /\ user_input' # <<>>
    /\ Parsed[user_input'[1]].exc = NoExc
    /\ Parsed[user_input'[1]].cmd = cmd

\* The arguments of the line the step reads, and the k-th of them.
Args == Parsed[user_input'[1]].args

Arg(k) == Args[k]

\* s.split("\n")
RECURSIVE SplitLines(_, _, _)
SplitLines(s, i, cur) ==
    IF i > Len(s) THEN <<cur>>
    ELSE IF s[i] = 10 THEN <<cur>> \o SplitLines(s, i + 1, <<>>)
    ELSE SplitLines(s, i + 1, Append(cur, s[i]))

IsError(message) == startswith(message, U("Error: "))

\* C1 (as claimed): a session starts with the Directory loaded from the store:
\* before the first input of a session, the AddressBook equals what load_data
\* yields from addressbook.pkl (empty only when the file is absent).
C1_StartsFromStore ==
    (pc = "prompt" /\ user_input = <<>>) => data = load_data(file)

\* The step reads "change <name> <old> <new>" for a contact of the Directory.
ReadsChange ==
    /\ ReadsCommand(U("change"))
    /\ Len(Args) = 3
    /\ HasContact(data, Arg(1))

\* The step is a change command that replied with the confirmation.
ChangeSucceeds ==
    /\ ReadsChange
    /\ out' = <<U("Phone number updated: ") \o Arg(2) \o U(" -> ") \o Arg(3)>>

\* C2 (as claimed): after a successful editPhone(old, new), old is absent, new
\* is present and the length of the phone sequence is unchanged.
C2_OldAbsent ==
    [][ChangeSucceeds =>
         /\ Arg(2) \notin Range(PhonesOf(data', Arg(1)))
         /\ Arg(3) \in Range(PhonesOf(data', Arg(1)))
         /\ Len(PhonesOf(data', Arg(1))) = Len(PhonesOf(data, Arg(1)))]_vars

\* C2 (amended): after a successful editPhone(old, new), new is present, the
\* length of the phone sequence is unchanged, and old occurs exactly one time
\* fewer than before when old # new (so it is absent iff it occurred once) and
\* as often as before when old = new.
C2_FirstOccurrenceReplaced ==
    [][ChangeSucceeds =>
         /\ Arg(3) \in Range(PhonesOf(data', Arg(1)))
         /\ Len(PhonesOf(data', Arg(1))) = Len(PhonesOf(data, Arg(1)))
         /\ Count(PhonesOf(data', Arg(1)), Arg(2)) =
              Count(PhonesOf(data, Arg(1)), Arg(2)) - (IF Arg(2) = Arg(3) THEN 0 ELSE 1)
         /\ Last(PhonesOf(data', Arg(1))) = Arg(3)]_vars

\* A change that replaced the first of two equal phones: the old one is still there.
C2_Witness ==
    /\ user_input = <<U("change Alice 0501234567 0509999999")>>
    /\ out = <<U("Phone number updated: 0501234567 -> 0509999999")>>
    /\ HasContact(data, U("Alice"))
    /\ PhonesOf(data, U("Alice")) = <<U("0501234567"), U("0509999999")>>

\* The line "<name>: <DD.MM.YYYY>" of record i for the year of the clock.
BirthdayLine(i) ==
    data[i].name \o U(": ")
    \o strftime([strptime(data[i].birthday[1])[1] EXCEPT !.year = today.year])

\* Record i's birthday has an occurrence in the year of the clock.
OccursThisYear(i) ==
    /\ data[i].birthday # <<>>
    /\ replace_year(strptime(data[i].birthday[1])[1], today.year) # <<>>

\* Calendar days from the date of the clock to this year's occurrence.
CalendarDaysAhead(i) ==
    toordinal(replace_year(strptime(data[i].birthday[1])[1], today.year)[1])
    - toordinal(today)

Listed(i) == BirthdayLine(i) \in Range(SplitLines(out[1], 1, <<>>))

\* C3 (as claimed): when the query answers, a record is listed iff this
\* year's occurrence of its birthday is 0 to 7 calendar days after the date of
\* the clock, at any time of day.
C3_CalendarWindow ==
    (user_input = <<U("birthdays")>> /\ pc = "prompt" /\ ~IsError(out[1])) =>
        \A i \in 1..Len(data) :
            OccursThisYear(i) =>
                (Listed(i) <=> (0 <= CalendarDaysAhead(i) /\ CalendarDaysAhead(i) <= 7))

IsFeb29(i) ==
    /\ data[i].birthday # <<>>
    /\ strptime(data[i].birthday[1])[1].month = 2
    /\ strptime(data[i].birthday[1])[1].day = 29

\* C4 (as claimed): in a year that is not a leap year a record born on 29.02
\* is skipped and the query still answers: it is no error, and every other
\* record whose birthday this year is 0 to 7 days ahead is listed.
C4_Feb29Skipped ==
    (/\ user_input = <<U("birthdays")>>
     /\ pc = "prompt"
     /\ ~IsLeap(today.year)
     /\ \E i \in 1..Len(data) : IsFeb29(i)) =>
        /\ ~IsError(out[1])
        /\ \A i \in 1..Len(data) :
              (/\ OccursThisYear(i)
               /\ 0 <= days_until(replace_year(strptime(data[i].birthday[1])[1],
                                               today.year)[1], today)
               /\ days_until(replace_year(strptime(data[i].birthday[1])[1],
                                          today.year)[1], today) <= 7)
              => Listed(i)

\* C5: a change command whose new phone fails validation, on an existing
\* contact, replies with the invalid-format error and leaves every phone
\* sequence as it was, whether or not the old phone is in the record.
C5_InvalidNewLeavesPhones ==
    [][(ReadsChange /\ ~Phone_is_valid(Arg(3))) =>
         /\ out' = <<U("Error: Invalid number. Should contain 10 digits.")>>
         /\ data' = data]_vars

\* The invalid new phone was refused although the old phone is in the record.
C5_Witness ==
    /\ user_input = <<U("change Alice 0501234567 12345")>>
    /\ out = <<U("Error: Invalid number. Should contain 10 digits.")>>
    /\ HasContact(data, U("Alice"))
    /\ U("0501234567") \in Range(PhonesOf(data, U("Alice")))

\* C6: when main() has returned after close/exit, loading the file it wrote
\* yields the records it held: same names in the same order, same phones in
\* order, same birthdays.
C6_RoundTrip ==
    pc = "stopped" => (file # <<>> /\ load_data(file) = data)

\* Two contacts, one with two phones and one with a birthday, were saved.
C6_Witness ==
    /\ pc = "stopped"
    /\ Len(data) = 2
    /\ \E i \in 1..2 : Len(data[i].phones) = 2
    /\ \E i \in 1..2 : data[i].birthday # <<>>

\* C7 (as claimed): no line the user enters terminates the session: main()
\* is at its prompt again after every line but close/exit.
C7_SessionSurvives ==
    /\ pc # "crashed"
    /\ pc = "stopped" => user_input # <<>> /\ Parsed[user_input[1]].cmd \in ExitCommands

\* The step reads "add <name> <phone> ..." with a phone that passes validation.
ReadsAddValid ==
    /\ ReadsCommand(U("add"))
    /\ Len(Args) >= 2
    /\ Phone_is_valid(Arg(2))

\* C8: add-contact(name, phone) with a valid phone.  For a new name it shows
\* "Contact added." and appends a record whose phones are exactly [phone]; for
\* a known name it shows "Contact updated.", appends phone to that record and
\* changes nothing else.
C8_AddContact ==
    [][ReadsAddValid =>
         IF ~HasContact(data, Arg(1))
         THEN /\ Last(out') = U("Contact added.")
              /\ data' = Append(data, [name |-> Arg(1), phones |-> <<Arg(2)>>,
                                        birthday |-> <<>>])
         ELSE /\ out' = <<U("Contact updated.")>>
              /\ Len(data') = Len(data)
              /\ \A i \in 1..Len(data) :
                    data'[i] = IF data[i].name = Arg(1)
                               THEN [data[i] EXCEPT !.phones = Append(@, Arg(2))]
                               ELSE data[i]]_vars

\* The second add for Alice: two phones, earlier one first.
C8_Witness ==
    /\ user_input = <<U("add Alice 0509999999")>>
    /\ out = <<U("Contact updated.")>>
    /\ HasContact(data, U("Alice"))
    /\ PhonesOf(data, U("Alice")) = <<U("0501234567"), U("0509999999")>>

\* C9 (as claimed): every stored phone is exactly 10 decimal digits (0-9) and
\* every stored birthday passes the Birthday validation.
C9_StoredFieldsValid ==
    \A i \in 1..Len(data) :
        /\ \A k \in 1..Len(data[i].phones) :
              /\ Len(data[i].phones[k]) = 10
              /\ \A c \in 1..10 : IsAsciiDigit(data[i].phones[k][c])
        /\ data[i].birthday # <<>> => Birthday_is_valid(data[i].birthday[1])

\* C10 (as claimed): a handler that replies with a message beginning with
\* "Error:" leaves the Directory as it was.
C10_ErrorLeavesDirectory ==
    [][(pc = "prompt" /\ pc' = "prompt" /\ out' # <<>> /\ startswith(Last(out'), U("Error:")))
         => data' = data]_vars

====
